---- MODULE Spec2Model ----
(***************************************************************************)
(* A model of the minipro controller: bluetooth::LEClient (the GATT        *)
(* facade over the BlueZ client, src/src/bluetooth/le_client.cpp) and      *)
(* jeronibot::util::Joystick (the input poller, src/src/util/joystick.cpp).*)
(*                                                                         *)
(* LEClient is modelled as two threads: the owner thread, which runs the   *)
(* constructor, the facade calls and the destructor, and input_thread_,    *)
(* which runs mainloop_run() and on which BlueZ invokes every callback.    *)
(* BlueZ itself is the environment: whether it accepts a request, and the  *)
(* arguments of each completion, are chosen nondeterministically.          *)
(***************************************************************************)
EXTENDS Integers, Sequences, FiniteSets, TLC

\* Largest reliable-write session id BlueZ hands out in the model.
MaxSessionId == 2
\* Largest ATT error code a completion carries in the model (uint8_t in the code).
MaxEcode == 2
\* Number of facade calls the owner issues on one connection.
MaxCalls == 3

SessionIds == 0..MaxSessionId
Ecodes == 0..MaxEcode

VARIABLES
  pc,                    \* position of the owner thread
  ready_,                \* LEClient::ready_
  att_,                  \* LEClient::att_   : "null" | "live" | "released"
  gatt_,                 \* LEClient::gatt_  : "null" | "live" | "released"
  input_thread_,         \* LEClient::input_thread_ : "none" | "running" | "exited" | "joined"
  quit,                  \* the mainloop's terminate flag (mainloop_quit)
  reliable_session_id_,  \* LEClient::reliable_session_id_
  promise,               \* the std::promise<int> of the facade call in progress
  pending,               \* the request BlueZ accepted and has not completed yet
  last_op,               \* history: the facade call issued last and what it did
  last_cb,               \* history: the callback BlueZ invoked last, with its arguments
  n_calls,               \* history: number of facade calls issued
  stale,                 \* history: session ids that write_execute has cleared
  init_failure,          \* history: the constructor step that failed
  cb_pc,                 \* position of input_thread_ inside ready_cb: "none" |
                         \* "notify" | "store"
  ready_fired            \* history: "never", or the best ready_cb seen: "failed" | "ok"

le_vars == <<pc, ready_, att_, gatt_, input_thread_, quit, reliable_session_id_,
             promise, pending, last_op, last_cb, n_calls, stale, init_failure,
             cb_pc, ready_fired>>

\* jeronibot::util::Joystick: the owner thread (constructor, set_button_callback,
\* destructor) and the poll thread, input_thread_func.
VARIABLES
  jpc,            \* position of the Joystick's owner thread
  fd_,            \* Joystick::fd_ : "none" | "open" | "closed"
  num_axes_,      \* Joystick::num_axes_
  num_buttons_,   \* Joystick::num_buttons_
  axis_map_,      \* Joystick::axis_map_
  button_map_,    \* Joystick::button_map_ : TRUE where a callback is registered
  should_exit_,   \* Joystick::should_exit_
  jthread,        \* the poll thread: "none" | "test" | "read" | "invoke" | "exited" |
                  \* "joined" | "terminated"
  n_events,       \* history: number of event records the device delivered
  n_regs,         \* history: number of set_button_callback calls made
  last_invoked,   \* history: the button callback invoked last, with its argument
  read_closed,    \* history: read() was called on a closed fd_
  last_event,     \* history: the event record read last and the table index it used
  last_reg,       \* history: the set_button_callback call made last
  reg_call,       \* the assignment to button_map_[button] in progress
  n_gets,         \* history: number of get_axis_state calls made
  get_call,       \* the get_axis_state call in progress: its axis, the component
                  \* it read first and the value read
  held,           \* history: the (x, y) pairs the slot has held during that call
  last_get        \* history: the get_axis_state call that returned last

joy_vars == <<jpc, fd_, num_axes_, num_buttons_, axis_map_, button_map_, should_exit_,
              jthread, n_events, n_regs, last_invoked, read_closed, last_event,
              last_reg, reg_call, n_gets, get_call, held, last_get>>

\* The control loop of the application (main of t_minipro.cpp).
VARIABLES
  mpc,            \* position of the main thread
  should_exit,    \* the shutdown flag set by the SIGINT handler
  minipro,        \* the MiniPro connection: "none", "connected", "notifying",
                  \* "remote", "normal", "released"
  throttle,       \* the local throttle of the iteration in progress
  steering,       \* the local steering of the iteration in progress
  raw,            \* history: the y and x the two get_axis_state calls returned
  last_drive,     \* history: the arguments of the drive command sent last
  n_drives,       \* history: number of drive commands sent from inside the loop
  n_final,        \* history: number of drive commands sent after the loop
  n_iters,        \* number of loop iterations completed
  rc              \* the value main returns: 0, -1, or "none" while it runs

ctl_vars == <<mpc, should_exit, minipro, throttle, steering, raw, last_drive,
              n_drives, n_final, n_iters, rc>>

vars == <<le_vars, joy_vars, ctl_vars>>

----------------------------------------------------------------------------
\* std::promise<int>: no promise, an empty one, or a satisfied one. count is the
\* number of set_value calls made on it.
NoPromise == [state |-> "none", value |-> 0, count |-> 0]
NewPromise == [state |-> "empty", value |-> 0, count |-> 0]

\* promise->set_value(v): satisfies an empty promise; on a satisfied one it
\* stores nothing (std::future_error) but it is a second fulfilment all the same.
set_value(p, v) ==
  IF p.state = "empty"
  THEN [state |-> "set", value |-> v, count |-> p.count + 1]
  ELSE [p EXCEPT !.count = @ + 1]

\* A wait that gives up once BlueZ has nothing left to deliver for the call.
future_ready_or_completed(p) == p.state = "set" \/ pending = "none"

\* future.get() returns once the promise is satisfied.
future_ready(p) == p.state = "set"

NoOp == [op |-> "none", id |-> 0, flag |-> FALSE, collab |-> "none", before |-> 0]
NoCb == [cb |-> "none", success |-> FALSE, reliable_error |-> FALSE, att_ecode |-> 0]

\* What a facade call did: the id and flag it was given, the answer of BlueZ
\* ("none" when BlueZ was not called) and the open session id at the call.
Op(op, id, flag, collab) ==
  [op |-> op, id |-> id, flag |-> flag, collab |-> collab, before |-> reliable_session_id_]

Answer(ok) == IF ok THEN "accepted" ELSE "refused"

\* The constructor steps that can fail.
InitSteps == {"socket", "att_new", "close_on_unref", "register_disconnect", "db_new", "gatt_new"}

\* The object exists: the constructor returned normally and the destructor has
\* not finished.
Constructed ==
  pc \in {"idle", "wv_wait", "wl_wait", "we_wait",
          "dtor_unref_gatt", "dtor_unref_att", "dtor_join"}

LEInit ==
  /\ pc = "start"
  /\ ready_ = FALSE
  /\ att_ = "null"
  /\ gatt_ = "null"
  /\ input_thread_ = "none"
  /\ quit = FALSE
  /\ reliable_session_id_ = 0
  /\ promise = NoPromise
  /\ pending = "none"
  /\ last_op = NoOp
  /\ last_cb = NoCb
  /\ n_calls = 0
  /\ stale = {}
  /\ init_failure = "none"
  /\ cb_pc = "none"
  /\ ready_fired = "never"

----------------------------------------------------------------------------
\* LEClient::LEClient up to the spawn of input_thread_. fail names the step that
\* fails. A socket failure throws; every later failure prints and returns, so
\* the constructor completes normally on an object that has no thread.
Ctor(fail) ==
  /\ pc = "start"
  /\ init_failure' = fail
  /\ CASE fail = "socket" ->
            /\ pc' = "ctor_failed"
            /\ UNCHANGED <<att_, gatt_, input_thread_>>
       [] fail = "att_new" ->
            /\ pc' = "idle"
            /\ UNCHANGED <<att_, gatt_, input_thread_>>
       [] fail \in {"close_on_unref", "register_disconnect", "db_new", "gatt_new"} ->
            /\ pc' = "idle"
            /\ att_' = "released"
            /\ UNCHANGED <<gatt_, input_thread_>>
       [] OTHER ->
            /\ pc' = "ctor_wait"
            /\ att_' = "live"
            /\ gatt_' = "live"
            /\ input_thread_' = "running"
  /\ UNCHANGED <<ready_, quit, reliable_session_id_, promise, pending, last_op,
                 last_cb, n_calls, stale, ready_fired>>
  /\ UNCHANGED cb_pc
  /\ UNCHANGED <<joy_vars, ctl_vars>>

\* cv_.wait_for(lk, 5s, [this] {return ready_;}) returns true: ready_ was set
\* before the wait gave up.
CtorWaitReady ==
  /\ pc = "ctor_wait"
  /\ ready_
  /\ pc' = "idle"
  /\ UNCHANGED <<ready_, att_, gatt_, input_thread_, quit, reliable_session_id_,
                 promise, pending, last_op, last_cb, n_calls, stale, init_failure, ready_fired>>
  /\ UNCHANGED cb_pc
  /\ UNCHANGED <<joy_vars, ctl_vars>>

\* The wait times out with ready_ still false: the constructor throws. The
\* members are destroyed during unwinding, and destroying the joinable
\* std::thread calls std::terminate.
CtorWaitTimeout ==
  /\ pc = "ctor_wait"
  /\ ~ready_
  /\ pc' = "terminated"
  /\ init_failure' = "timeout"
  /\ UNCHANGED <<ready_, att_, gatt_, input_thread_, quit, reliable_session_id_,
                 promise, pending, last_op, last_cb, n_calls, stale, ready_fired>>
  /\ UNCHANGED cb_pc
  /\ UNCHANGED <<joy_vars, ctl_vars>>

----------------------------------------------------------------------------
\* The facade calls of the owner thread. No facade function tests gatt_: on an
\* object whose constructor returned early the request is made with a null
\* client.
CanCall == pc = "idle" /\ n_calls < MaxCalls

\* What BlueZ can answer a request made with gatt_: a null client is refused
\* (the bt_gatt_client_* functions return 0 / false for it).
Accepts == IF gatt_ = "live" THEN BOOLEAN ELSE {FALSE}

\* The fire-and-forget branch: bt_gatt_client_write_without_response, no
\* promise, no wait.
write_value_without_response(ok) ==
  /\ last_op' = Op("write_value", 0, TRUE, Answer(ok))
  /\ UNCHANGED <<pc, promise, pending>>

\* The blocking branch: a promise is allocated and passed to
\* bt_gatt_client_write_value; the call then waits in future.get() whether or
\* not the request was accepted.
write_value_with_response(ok) ==
  /\ last_op' = Op("write_value", 0, FALSE, Answer(ok))
  /\ promise' = NewPromise
  /\ pending' = IF ok THEN "write" ELSE "none"
  /\ pc' = "wv_wait"

\* The branches of write_value taken the wrong way round.
write_value_inverted(without_response, ok) ==
  IF without_response
  THEN /\ last_op' = Op("write_value", 0, TRUE, Answer(ok))
       /\ promise' = NewPromise
       /\ pending' = IF ok THEN "write" ELSE "none"
       /\ pc' = "wv_wait"
  ELSE /\ last_op' = Op("write_value", 0, FALSE, Answer(ok))
       /\ UNCHANGED <<pc, promise, pending>>

\* LEClient::write_value, up to the wait. ok: BlueZ accepted the request.
write_value(without_response, ok) ==
  IF without_response
  THEN write_value_without_response(ok)
  ELSE write_value_with_response(ok)

WriteValue ==
  \E without_response \in BOOLEAN, ok \in Accepts :
    /\ CanCall
    /\ write_value(without_response, ok)
    /\ n_calls' = n_calls + 1
    /\ UNCHANGED <<ready_, att_, gatt_, input_thread_, quit, reliable_session_id_,
                   last_cb, stale, init_failure, ready_fired>>
    /\ UNCHANGED cb_pc
    /\ UNCHANGED <<joy_vars, ctl_vars>>

\* LEClient::write_long_value, up to the wait.
write_long_value(reliable_writes, ok) ==
  /\ last_op' = Op("write_long_value", 0, reliable_writes, Answer(ok))
  /\ promise' = NewPromise
  /\ pending' = IF ok THEN "write_long" ELSE "none"
  /\ pc' = "wl_wait"

WriteLongValue ==
  \E reliable_writes \in BOOLEAN, ok \in Accepts :
    /\ CanCall
    /\ write_long_value(reliable_writes, ok)
    /\ n_calls' = n_calls + 1
    /\ UNCHANGED <<ready_, att_, gatt_, input_thread_, quit, reliable_session_id_,
                   last_cb, stale, init_failure, ready_fired>>
    /\ UNCHANGED cb_pc
    /\ UNCHANGED <<joy_vars, ctl_vars>>

\* What bt_gatt_client_prepare_write(gatt_, id, ...) can return: 0 on failure
\* (always, for a null client), else the session id, a new one when id is 0.
PrepareResults(id) ==
  IF gatt_ # "live" THEN {0}
  ELSE IF id = 0 THEN SessionIds ELSE {0, id}

\* write_prepare without the comparison of id with reliable_session_id_.
write_prepare_unchecked(id, r) ==
  /\ last_op' = Op("write_prepare", id, FALSE, Answer(r # 0))
  /\ reliable_session_id_' = r

\* LEClient::write_prepare. r: the value bt_gatt_client_prepare_write returns.
write_prepare(id, r) ==
  IF reliable_session_id_ # id
  THEN /\ last_op' = Op("write_prepare", id, FALSE, "none")
       /\ UNCHANGED reliable_session_id_
  ELSE /\ last_op' = Op("write_prepare", id, FALSE, Answer(r # 0))
       /\ reliable_session_id_' = r

WritePrepare ==
  \E id \in SessionIds : \E r \in PrepareResults(id) :
    /\ CanCall
    /\ write_prepare(id, r)
    /\ n_calls' = n_calls + 1
    /\ UNCHANGED <<pc, ready_, att_, gatt_, input_thread_, quit, promise, pending,
                   last_cb, stale, init_failure, ready_fired>>
    /\ UNCHANGED cb_pc
    /\ UNCHANGED <<joy_vars, ctl_vars>>

\* write_execute with the comparison of session_id with reliable_session_id_
\* that write_prepare makes.
write_execute_checked(session_id, execute, ok) ==
  IF reliable_session_id_ # session_id
  THEN /\ last_op' = Op("write_execute", session_id, execute, "none")
       /\ UNCHANGED <<pc, promise, pending, reliable_session_id_, stale>>
  ELSE /\ last_op' = Op("write_execute", session_id, execute, Answer(ok))
       /\ IF execute
          THEN /\ promise' = NewPromise
               /\ pending' = IF ok THEN "exec" ELSE "none"
               /\ pc' = "we_wait"
               /\ UNCHANGED <<reliable_session_id_, stale>>
          ELSE /\ reliable_session_id_' = 0
               /\ stale' = stale \cup ({reliable_session_id_} \ {0})
               /\ UNCHANGED <<pc, promise, pending>>

\* LEClient::write_execute, up to the wait (execute) or to the end (cancel).
\* ok: what bt_gatt_client_write_execute / bt_gatt_client_cancel answers.
write_execute(session_id, execute, ok) ==
  /\ last_op' = Op("write_execute", session_id, execute, Answer(ok))
  /\ IF execute
     THEN /\ promise' = NewPromise
          /\ pending' = IF ok THEN "exec" ELSE "none"
          /\ pc' = "we_wait"
          /\ UNCHANGED <<reliable_session_id_, stale>>
     ELSE /\ reliable_session_id_' = 0
          /\ stale' = stale \cup ({reliable_session_id_} \ {0})
          /\ UNCHANGED <<pc, promise, pending>>

WriteExecute ==
  \E session_id \in SessionIds, execute \in BOOLEAN, ok \in Accepts :
    /\ CanCall
    /\ write_execute(session_id, execute, ok)
    /\ n_calls' = n_calls + 1
    /\ UNCHANGED <<ready_, att_, gatt_, input_thread_, quit, last_cb, init_failure, ready_fired>>
    /\ UNCHANGED cb_pc
    /\ UNCHANGED <<joy_vars, ctl_vars>>

\* future.get() returns in write_value / write_long_value: rc is read, the
\* promise goes out of scope.
WriteReturn ==
  /\ pc \in {"wv_wait", "wl_wait"}
  /\ future_ready(promise)
  /\ pc' = "idle"
  /\ promise' = NoPromise
  /\ UNCHANGED <<ready_, att_, gatt_, input_thread_, quit, reliable_session_id_,
                 pending, last_op, last_cb, n_calls, stale, init_failure, ready_fired>>
  /\ UNCHANGED cb_pc
  /\ UNCHANGED <<joy_vars, ctl_vars>>

\* future.get() returns in write_execute, then reliable_session_id_ = 0.
WriteExecuteReturn ==
  /\ pc = "we_wait"
  /\ future_ready(promise)
  /\ pc' = "idle"
  /\ promise' = NoPromise
  /\ reliable_session_id_' = 0
  /\ stale' = stale \cup ({reliable_session_id_} \ {0})
  /\ UNCHANGED <<ready_, att_, gatt_, input_thread_, quit, pending, last_op,
                 last_cb, n_calls, init_failure, ready_fired>>
  /\ UNCHANGED cb_pc
  /\ UNCHANGED <<joy_vars, ctl_vars>>

----------------------------------------------------------------------------
\* The process is running: neither std::terminate nor a crash has ended it.
Alive == pc \notin {"terminated", "crashed"}

\* The callbacks, which BlueZ invokes on input_thread_ while mainloop_run() is
\* processing events.
Dispatching == Alive /\ input_thread_ = "running" /\ cb_pc = "none"

\* LEClient::ready_cb, statement by statement. A failed discovery only prints
\* and returns. A successful one stores ready_ under mutex_ (lines 234-237),
\* releases the mutex, notifies (line 239) and stores ready_ once more without
\* the mutex (line 240): the owner can leave the constructor, issue calls and
\* start the destructor between the first store and the return.
ready_cb(success) == IF success THEN TRUE ELSE ready_

\* Entry, the test of success and the store under the lock.
ReadyCb ==
  \E success \in BOOLEAN, att_ecode \in Ecodes :
    /\ Dispatching
    /\ gatt_ = "live"
    /\ ready_' = ready_cb(success)
    /\ cb_pc' = IF success THEN "notify" ELSE "none"
    /\ ready_fired' = IF success \/ ready_fired = "ok" THEN "ok" ELSE "failed"
    /\ last_cb' = [cb |-> "ready_cb", success |-> success, reliable_error |-> FALSE,
                   att_ecode |-> att_ecode]
    /\ UNCHANGED <<pc, att_, gatt_, input_thread_, quit, reliable_session_id_, promise,
                   pending, last_op, n_calls, stale, init_failure>>
    /\ UNCHANGED <<joy_vars, ctl_vars>>

\* This->cv_.notify_all().
ReadyCbNotify ==
  /\ Alive
  /\ cb_pc = "notify"
  /\ cb_pc' = "store"
  /\ UNCHANGED <<pc, ready_, att_, gatt_, input_thread_, quit, reliable_session_id_,
                 promise, pending, last_op, last_cb, n_calls, stale, init_failure,
                 ready_fired>>
  /\ UNCHANGED <<joy_vars, ctl_vars>>

\* This->ready_ = true, without the mutex, and the return to the main loop.
ReadyCbStore ==
  /\ Alive
  /\ cb_pc = "store"
  /\ ready_' = TRUE
  /\ cb_pc' = "none"
  /\ UNCHANGED <<pc, att_, gatt_, input_thread_, quit, reliable_session_id_,
                 promise, pending, last_op, last_cb, n_calls, stale, init_failure,
                 ready_fired>>
  /\ UNCHANGED <<joy_vars, ctl_vars>>

\* LEClient::write_cb: promise->set_value(success ? 0 : att_ecode).
write_cb(p, success, att_ecode) == set_value(p, IF success THEN 0 ELSE att_ecode)

\* The completion of a write_value or write_execute request.
WriteCb ==
  \E success \in BOOLEAN, att_ecode \in Ecodes :
    /\ Dispatching
    /\ pending \in {"write", "exec"}
    /\ promise' = write_cb(promise, success, att_ecode)
    /\ pending' = "none"
    /\ last_cb' = [cb |-> "write_cb", success |-> success, reliable_error |-> FALSE,
                   att_ecode |-> att_ecode]
    /\ UNCHANGED <<pc, ready_, att_, gatt_, input_thread_, quit, reliable_session_id_,
                   last_op, n_calls, stale, init_failure, ready_fired>>
    /\ UNCHANGED cb_pc
    /\ UNCHANGED <<joy_vars, ctl_vars>>

\* write_long_cb fulfilling the promise with the error code in the
\* reliable_error branch too.
write_long_cb_fulfil_all(p, success, reliable_error, att_ecode) ==
  IF success THEN set_value(p, 0) ELSE set_value(p, att_ecode)

\* LEClient::write_long_cb: the reliable_error branch only prints.
write_long_cb(p, success, reliable_error, att_ecode) ==
  IF success
  THEN set_value(p, 0)
  ELSE IF reliable_error
       THEN p
       ELSE set_value(p, att_ecode)

\* The completion of a write_long_value request.
WriteLongCb ==
  \E success \in BOOLEAN, reliable_error \in BOOLEAN, att_ecode \in Ecodes :
    /\ Dispatching
    /\ pending = "write_long"
    /\ promise' = write_long_cb(promise, success, reliable_error, att_ecode)
    /\ pending' = "none"
    /\ last_cb' = [cb |-> "write_long_cb", success |-> success,
                   reliable_error |-> reliable_error, att_ecode |-> att_ecode]
    /\ UNCHANGED <<pc, ready_, att_, gatt_, input_thread_, quit, reliable_session_id_,
                   last_op, n_calls, stale, init_failure, ready_fired>>
    /\ UNCHANGED cb_pc
    /\ UNCHANGED <<joy_vars, ctl_vars>>

\* A disconnect handler that only reports the disconnect.
att_disconnect_cb_report_only ==
  UNCHANGED quit

\* LEClient::att_disconnect_cb: prints the reason, then mainloop_quit().
att_disconnect_cb ==
  quit' = TRUE

\* BlueZ invokes the disconnect handler registered on att_, once.
AttDisconnectCb ==
  /\ Dispatching
  /\ att_ = "live"
  /\ ~quit
  /\ last_cb.cb # "att_disconnect_cb"
  /\ att_disconnect_cb
  /\ last_cb' = [NoCb EXCEPT !.cb = "att_disconnect_cb"]
  /\ UNCHANGED <<pc, ready_, att_, gatt_, input_thread_, reliable_session_id_, promise,
                 pending, last_op, n_calls, stale, init_failure, ready_fired>>
  /\ UNCHANGED cb_pc
  /\ UNCHANGED <<joy_vars, ctl_vars>>

\* LEClient::process_input: mainloop_run() returns once the terminate flag is
\* set, and the thread function ends.
ProcessInputReturn ==
  /\ Alive
  /\ input_thread_ = "running"
  /\ cb_pc = "none"
  /\ quit
  /\ input_thread_' = "exited"
  /\ UNCHANGED <<pc, ready_, att_, gatt_, quit, reliable_session_id_, promise,
                 pending, last_op, last_cb, n_calls, stale, init_failure, ready_fired>>
  /\ UNCHANGED cb_pc
  /\ UNCHANGED <<joy_vars, ctl_vars>>

----------------------------------------------------------------------------
\* LEClient::~LEClient, statement by statement.

\* mainloop_quit(): sets the terminate flag, thread or no thread.
DtorQuit ==
  /\ pc = "idle"
  /\ quit' = TRUE
  /\ pc' = "dtor_unref_gatt"
  /\ UNCHANGED <<ready_, att_, gatt_, input_thread_, reliable_session_id_, promise,
                 pending, last_op, last_cb, n_calls, stale, init_failure, ready_fired>>
  /\ UNCHANGED cb_pc
  /\ UNCHANGED <<joy_vars, ctl_vars>>

\* bt_gatt_client_unref(gatt_): nothing happens for a null client.
DtorUnrefGatt ==
  /\ pc = "dtor_unref_gatt"
  /\ gatt_' = IF gatt_ = "null" THEN "null" ELSE "released"
  /\ pc' = "dtor_unref_att"
  /\ UNCHANGED <<ready_, att_, input_thread_, quit, reliable_session_id_, promise,
                 pending, last_op, last_cb, n_calls, stale, init_failure, ready_fired>>
  /\ UNCHANGED cb_pc
  /\ UNCHANGED <<joy_vars, ctl_vars>>

\* bt_att_unref(att_): nothing happens for a null transport. After a
\* constructor that returned early att_ points to the transport the
\* constructor has already released: the call uses freed memory, and either
\* crashes or returns.
DtorUnrefAtt ==
  \E crash \in BOOLEAN :
    /\ pc = "dtor_unref_att"
    /\ crash => att_ = "released"
    /\ att_' = IF att_ = "null" THEN "null" ELSE "released"
    /\ pc' = IF crash THEN "crashed" ELSE "dtor_join"
    /\ UNCHANGED <<ready_, gatt_, input_thread_, quit, reliable_session_id_, promise,
                   pending, last_op, last_cb, n_calls, stale, init_failure, ready_fired>>
    /\ UNCHANGED cb_pc
    /\ UNCHANGED <<joy_vars, ctl_vars>>

\* input_thread_->join() returns once process_input has returned. On an object
\* whose constructor returned early there is no thread: the call dereferences
\* a null pointer.
DtorJoin ==
  /\ pc = "dtor_join"
  /\ input_thread_ \in {"none", "exited"}
  /\ IF input_thread_ = "none"
     THEN pc' = "crashed" /\ UNCHANGED input_thread_
     ELSE pc' = "destroyed" /\ input_thread_' = "joined"
  /\ UNCHANGED <<ready_, att_, gatt_, quit, reliable_session_id_, promise,
                 pending, last_op, last_cb, n_calls, stale, init_failure, ready_fired>>
  /\ UNCHANGED cb_pc
  /\ UNCHANGED <<joy_vars, ctl_vars>>

LENext ==
  \/ \E fail \in InitSteps \cup {"none"} : Ctor(fail)
  \/ CtorWaitReady
  \/ CtorWaitTimeout
  \/ WriteValue
  \/ WriteLongValue
  \/ WritePrepare
  \/ WriteExecute
  \/ WriteReturn
  \/ WriteExecuteReturn
  \/ ReadyCb
  \/ ReadyCbNotify
  \/ ReadyCbStore
  \/ WriteCb
  \/ WriteLongCb
  \/ AttDisconnectCb
  \/ ProcessInputReturn
  \/ DtorQuit
  \/ DtorUnrefGatt
  \/ DtorUnrefAtt
  \/ DtorJoin

----------------------------------------------------------------------------
\* jeronibot::util::Joystick.

\* Number of event records the device delivers in the model.
MaxEvents == 2
\* Number of set_button_callback calls the owner makes in the model.
MaxRegistrations == 2
\* Number of get_axis_state calls the owner makes in the model.
MaxGets == 1

\* The (axis count, button count) pairs JSIOCGAXES / JSIOCGBUTTONS report.
AxisCounts == {2, 4}
ButtonCounts == {1, 2}
\* The axis slots and button entries the events of the model address.
Slots == 0..3
Buttons == 0..2
\* The indices the owner passes to get_axis_state (uint8_t axis).
AxisArgs == 0..4
\* js_event.number and js_event.value as the device sends them.
AxisNumbers == 0..8
AxisValues == {-500, 20000}
\* js_event.value of a button event: released, pressed.
ButtonValues == {0, 1}
\* The (type, number, value) records the device sends while the life cycle of
\* the object and the calls of its owner are examined: every button, the two
\* components of one axis slot, one record of another type.
JoyEvents ==
  [type : {"button"}, number : Buttons, value : ButtonValues]
    \cup [type : {"axis"}, number : {0, 1}, value : {20000}]
    \cup [type : {"init"}, number : {0}, value : {20000}]
\* The records the device sends while the calls of the owner are examined: the
\* two components of one axis slot and the two states of one button.
OwnerEvents ==
  [type : {"button"}, number : {0}, value : ButtonValues]
    \cup [type : {"axis"}, number : {0, 1}, value : {20000}]
\* The records the device sends while the axis table is examined: every axis
\* number (8 is one the switch has no case for), every button, one record of
\* another type.
AxisEvents ==
  [type : {"axis"}, number : AxisNumbers, value : AxisValues]
    \cup [type : {"button"}, number : Buttons, value : {1}]
    \cup [type : {"init"}, number : {0}, value : {20000}]

NoEvent == [type |-> "none", number |-> 0, value |-> 0, slot |-> -1, entry |-> -1]
NoReg == [button |-> -1, registered |-> FALSE, result |-> "none"]
NoWrite == [button |-> -1, registered |-> FALSE]
NoInvoked == [button |-> -1, pressed |-> FALSE, callee |-> "none"]
NoGet == [axis |-> -1, first |-> "none", value |-> 0]
NoResult == [axis |-> -1, result |-> "none", x |-> 0, y |-> 0, held |-> {}]

JoyInit ==
  /\ jpc = "start"
  /\ fd_ = "none"
  /\ num_axes_ = 0
  /\ num_buttons_ = 0
  /\ axis_map_ = [s \in Slots |-> [x |-> 0, y |-> 0]]
  /\ button_map_ = [b \in Buttons |-> FALSE]
  /\ should_exit_ = FALSE
  /\ jthread = "none"
  /\ n_events = 0
  /\ n_regs = 0
  /\ last_invoked = NoInvoked
  /\ read_closed = FALSE
  /\ last_event = NoEvent
  /\ last_reg = NoReg
  /\ reg_call = NoWrite
  /\ n_gets = 0
  /\ get_call = NoGet
  /\ held = {}
  /\ last_get = NoResult

\* Joystick::Joystick. A failed open or ioctl throws before the thread is
\* launched (after open, fd_ stays open); otherwise the counts are stored, the
\* first num_axes_ slots and num_buttons_ entries are cleared and the poll thread
\* is launched.
JoyCtor(outcome, na, nb) ==
  /\ jpc = "start"
  /\ CASE outcome = "open_failed" ->
            /\ jpc' = "ctor_failed"
            /\ UNCHANGED <<fd_, num_axes_, num_buttons_, axis_map_, button_map_, jthread>>
       [] outcome = "axes_failed" ->
            /\ jpc' = "ctor_failed"
            /\ fd_' = "open"
            /\ UNCHANGED <<num_axes_, num_buttons_, axis_map_, button_map_, jthread>>
       [] outcome = "buttons_failed" ->
            /\ jpc' = "ctor_failed"
            /\ fd_' = "open"
            /\ num_axes_' = na
            /\ UNCHANGED <<num_buttons_, axis_map_, button_map_, jthread>>
       [] OTHER ->
            /\ jpc' = "open"
            /\ fd_' = "open"
            /\ num_axes_' = na
            /\ num_buttons_' = nb
            /\ axis_map_' = [s \in Slots |->
                              IF s < na THEN [x |-> 0, y |-> 0] ELSE axis_map_[s]]
            /\ button_map_' = [b \in Buttons |-> IF b < nb THEN FALSE ELSE button_map_[b]]
            /\ jthread' = "test"
  /\ UNCHANGED <<should_exit_, n_events, n_regs, last_invoked, read_closed,
                 last_event, last_reg, reg_call, n_gets, get_call, held, last_get>>
  /\ UNCHANGED <<le_vars, ctl_vars>>

\* The range test of set_button_callback with > for >=.
button_out_of_range_off_by_one(button) == button > num_buttons_

\* if (button >= num_buttons_) throw.
button_out_of_range(button) == button >= num_buttons_

\* Joystick::set_button_callback: an index at or above num_buttons_ throws,
\* else the entry is overwritten. registered: the callback given is not empty.
set_button_callback(button, registered) ==
  IF button_out_of_range(button)
  THEN button_map_
  ELSE [button_map_ EXCEPT ![button] = registered]

\* A set_button_callback call of the owner up to the start of the assignment
\* button_map_[button] = callback. The assignment of a std::function is not one
\* store and is made under no lock: until it ends the entry is partly written.
SetButtonCallback ==
  \E button \in Buttons, registered \in BOOLEAN :
    /\ jpc = "open"
    /\ n_regs < MaxRegistrations
    /\ n_regs' = n_regs + 1
    /\ IF button_out_of_range(button)
       THEN /\ last_reg' = [button |-> button, registered |-> registered,
                            result |-> "error"]
            /\ UNCHANGED <<jpc, reg_call>>
       ELSE /\ jpc' = "set_write"
            /\ reg_call' = [button |-> button, registered |-> registered]
            /\ UNCHANGED last_reg
    /\ UNCHANGED <<fd_, num_axes_, num_buttons_, axis_map_, button_map_, should_exit_,
                   jthread, n_events, last_invoked, read_closed, last_event, n_gets,
                   get_call, held, last_get>>
    /\ UNCHANGED <<le_vars, ctl_vars>>

\* The assignment ends and set_button_callback returns.
SetButtonCallbackReturn ==
  /\ jpc = "set_write"
  /\ jpc' = "open"
  /\ button_map_' = set_button_callback(reg_call.button, reg_call.registered)
  /\ last_reg' = [button |-> reg_call.button, registered |-> reg_call.registered,
                  result |-> "ok"]
  /\ reg_call' = NoWrite
  /\ UNCHANGED <<fd_, num_axes_, num_buttons_, axis_map_, should_exit_, jthread,
                 n_events, n_regs, last_invoked, read_closed, last_event, n_gets,
                 get_call, held, last_get>>
  /\ UNCHANGED <<le_vars, ctl_vars>>

\* if (axis >= num_axes_) throw.
axis_out_of_range(axis) == axis >= num_axes_

\* The order in which the two loads of line 84 are made. The loads are plain
\* and unsynchronised, so the compiler decides: x then y, y then x, or both at
\* once (a call with no poll step between its two reads).
ReadOrders == {"x", "y"}

\* Joystick::get_axis_state up to the first load of line 84: an index at or
\* above num_axes_ throws. The two components are read with no lock and no
\* atomic, so the poll thread can run between the loads.
get_axis_state_first(axis, first) ==
  /\ jpc = "open"
  /\ IF axis_out_of_range(axis)
     THEN /\ last_get' = [NoResult EXCEPT !.axis = axis, !.result = "error"]
          /\ UNCHANGED <<jpc, get_call, held>>
     ELSE /\ jpc' = "get_second"
          /\ get_call' = [axis |-> axis, first |-> first,
                          value |-> IF first = "x" THEN axis_map_[axis].x
                                    ELSE axis_map_[axis].y]
          /\ held' = {<<axis_map_[axis].x, axis_map_[axis].y>>}
          /\ UNCHANGED last_get

\* Joystick::get_axis_state from the second load of line 84 to the return.
get_axis_state_second ==
  /\ jpc = "get_second"
  /\ jpc' = "open"
  /\ last_get' = [axis |-> get_call.axis, result |-> "ok",
                  x |-> IF get_call.first = "x" THEN get_call.value
                        ELSE axis_map_[get_call.axis].x,
                  y |-> IF get_call.first = "y" THEN get_call.value
                        ELSE axis_map_[get_call.axis].y,
                  held |-> held]
  /\ get_call' = NoGet
  /\ held' = {}

\* A get_axis_state call of the owner.
GetAxisState ==
  \E axis \in AxisArgs, first \in ReadOrders :
    /\ n_gets < MaxGets
    /\ n_gets' = n_gets + 1
    /\ get_axis_state_first(axis, first)
    /\ UNCHANGED <<fd_, num_axes_, num_buttons_, axis_map_, button_map_, should_exit_,
                   jthread, n_events, n_regs, last_invoked, read_closed, last_event,
                   last_reg, reg_call>>
    /\ UNCHANGED <<le_vars, ctl_vars>>

GetAxisStateReturn ==
  /\ get_axis_state_second
  /\ UNCHANGED <<fd_, num_axes_, num_buttons_, axis_map_, button_map_, should_exit_,
                 jthread, n_events, n_regs, last_invoked, read_closed, last_event,
                 last_reg, reg_call, n_gets>>
  /\ UNCHANGED <<le_vars, ctl_vars>>

\* The switch on event.number with the numbers of the right stick and the
\* triggers routed in numeric order: 2, 3 to slot 1 and 4, 5 to slot 2.
axis_event_in_order(map, number, value) ==
  CASE number = 0 -> [map EXCEPT ![0].x = value]
    [] number = 1 -> [map EXCEPT ![0].y = value]
    [] number = 2 -> [map EXCEPT ![1].x = value]
    [] number = 3 -> [map EXCEPT ![1].y = value]
    [] number = 4 -> [map EXCEPT ![2].x = value]
    [] number = 5 -> [map EXCEPT ![2].y = value]
    [] number = 6 -> [map EXCEPT ![3].x = value]
    [] number = 7 -> [map EXCEPT ![3].y = value]
    [] OTHER -> map

\* The switch on event.number of an axis event: the slot and component written.
axis_event(map, number, value) ==
  CASE number = 0 -> [map EXCEPT ![0].x = value]
    [] number = 1 -> [map EXCEPT ![0].y = value]
    [] number = 2 -> [map EXCEPT ![2].x = value]
    [] number = 3 -> [map EXCEPT ![1].x = value]
    [] number = 4 -> [map EXCEPT ![1].y = value]
    [] number = 5 -> [map EXCEPT ![2].y = value]
    [] number = 6 -> [map EXCEPT ![3].x = value]
    [] number = 7 -> [map EXCEPT ![3].y = value]
    [] OTHER -> map

\* The index of axis_map_ the switch on event.number uses, -1 when it uses
\* none. No case compares the index with num_axes_.
axis_slot(number) ==
  CASE number \in {0, 1} -> 0
    [] number \in {3, 4} -> 1
    [] number \in {2, 5} -> 2
    [] number \in {6, 7} -> 3
    [] OTHER -> -1

\* The index of button_map_ a button event uses: button_map_[event.number],
\* whatever num_buttons_ is.
button_entry(number) == number

\* The loop test of input_thread_func: while (!should_exit_).
PollTest ==
  /\ jthread = "test"
  /\ jthread' = IF should_exit_ THEN "exited" ELSE "read"
  /\ UNCHANGED <<jpc, fd_, num_axes_, num_buttons_, axis_map_, button_map_, should_exit_,
                 n_events, n_regs, last_invoked, read_closed, last_event, last_reg, reg_call,
                 n_gets, get_call, held, last_get>>
  /\ UNCHANGED <<le_vars, ctl_vars>>

\* One pass of the loop body in which the non-blocking read returns nothing (or
\* fails, as it does on a closed fd_), then loop_rate.sleep().
PollReadNothing ==
  /\ jthread = "read"
  /\ jthread' = "test"
  /\ read_closed' = (read_closed \/ fd_ # "open")
  /\ UNCHANGED <<jpc, fd_, num_axes_, num_buttons_, axis_map_, button_map_, should_exit_,
                 n_events, n_regs, last_invoked, last_event, last_reg, reg_call, n_gets, get_call,
                 held, last_get>>
  /\ UNCHANGED <<le_vars, ctl_vars>>

\* What button_map_[event.number] != nullptr can yield: what the entry holds,
\* and, while the owner is assigning to that entry, also what it will hold.
callback_test(number) ==
  IF reg_call.button = button_entry(number)
  THEN {button_map_[button_entry(number)], reg_call.registered}
  ELSE {button_map_[button_entry(number)]}

\* What the call button_map_[event.number](...) reaches: the callback the entry
\* holds, an empty std::function, or an entry caught between its old and its
\* new content while the owner is assigning to it.
callee(number) ==
  IF /\ reg_call.button = button_entry(number)
     /\ (button_map_[button_entry(number)] \/ reg_call.registered)
  THEN "partial"
  ELSE IF button_map_[button_entry(number)] THEN "callback"
  ELSE "empty"

\* One pass of the loop body in which read returns a whole event record: the
\* switch on event.type, then loop_rate.sleep(). For a button event whose
\* entry tests non-empty the call of the callback is the next step of the
\* thread.
PollRead(events) ==
  \E event \in events :
    LET type == event.type
        number == event.number
        value == event.value
    IN
    /\ jthread = "read"
    /\ fd_ = "open"
    /\ n_events < MaxEvents
    /\ n_events' = n_events + 1
    /\ CASE type = "button" ->
              /\ \E non_empty \in callback_test(number) :
                   jthread' = IF non_empty THEN "invoke" ELSE "test"
              /\ last_event' = [type |-> type, number |-> number, value |-> value,
                                slot |-> -1, entry |-> button_entry(number)]
              /\ UNCHANGED axis_map_
         [] type = "axis" ->
              /\ jthread' = "test"
              /\ axis_map_' = axis_event(axis_map_, number, value)
              /\ last_event' = [type |-> type, number |-> number, value |-> value,
                                slot |-> axis_slot(number), entry |-> -1]
         [] OTHER ->
              /\ jthread' = "test"
              /\ last_event' = [type |-> type, number |-> number, value |-> value,
                                slot |-> -1, entry |-> -1]
              /\ UNCHANGED axis_map_
    /\ held' = IF jpc = "get_second"
               THEN held \cup {<<axis_map_'[get_call.axis].x, axis_map_'[get_call.axis].y>>}
               ELSE held
    /\ UNCHANGED <<jpc, fd_, num_axes_, num_buttons_, button_map_, should_exit_,
                   n_regs, last_invoked, read_closed, last_reg, reg_call, n_gets,
                   get_call, last_get>>
    /\ UNCHANGED <<le_vars, ctl_vars>>

\* button_map_[event.number](event.value ? true : false), a second read of the
\* entry. A callback runs and returns. An empty std::function throws
\* std::bad_function_call, which nothing in input_thread_func catches:
\* std::terminate ends the process. Calling an entry that is being assigned
\* to is a data race: the call may run a callback or end the process.
PollInvoke ==
  \E survives \in BOOLEAN :
    LET number == last_event.number
        target == callee(number)
    IN
    /\ jthread = "invoke"
    /\ target = "callback" => survives
    /\ target = "empty" => ~survives
    /\ last_invoked' = [button |-> number, pressed |-> last_event.value # 0,
                        callee |-> target]
    /\ IF survives
       THEN jthread' = "test" /\ UNCHANGED jpc
       ELSE jthread' = "terminated" /\ jpc' = "terminated"
    /\ UNCHANGED <<fd_, num_axes_, num_buttons_, axis_map_, button_map_, should_exit_,
                   n_events, n_regs, read_closed, last_event, last_reg, reg_call, n_gets,
                   get_call, held, last_get>>
    /\ UNCHANGED <<le_vars, ctl_vars>>

PollReadEvent == PollRead(JoyEvents)

PollReadOwnerEvent == PollRead(OwnerEvents)

PollReadAxisEvent == PollRead(AxisEvents)

\* Joystick::~Joystick, statement by statement.

\* should_exit_.store(true).
JoyDtorStore ==
  /\ jpc = "open"
  /\ should_exit_' = TRUE
  /\ jpc' = "dtor_join"
  /\ UNCHANGED <<fd_, num_axes_, num_buttons_, axis_map_, button_map_, jthread,
                 n_events, n_regs, last_invoked, read_closed, last_event, last_reg, reg_call,
                 n_gets, get_call, held, last_get>>
  /\ UNCHANGED <<le_vars, ctl_vars>>

\* input_thread_->join() returns once input_thread_func has returned.
joy_join ==
  /\ jthread = "exited"
  /\ jthread' = "joined"
  /\ jpc' = "dtor_close"

JoyDtorJoin ==
  /\ jpc = "dtor_join"
  /\ joy_join
  /\ UNCHANGED <<fd_, num_axes_, num_buttons_, axis_map_, button_map_, should_exit_,
                 n_events, n_regs, last_invoked, read_closed, last_event, last_reg, reg_call,
                 n_gets, get_call, held, last_get>>
  /\ UNCHANGED <<le_vars, ctl_vars>>

\* close(fd_).
JoyDtorClose ==
  /\ jpc = "dtor_close"
  /\ fd_' = "closed"
  /\ jpc' = "destroyed"
  /\ UNCHANGED <<num_axes_, num_buttons_, axis_map_, button_map_, should_exit_, jthread,
                 n_events, n_regs, last_invoked, read_closed, last_event, last_reg, reg_call,
                 n_gets, get_call, held, last_get>>
  /\ UNCHANGED <<le_vars, ctl_vars>>

JoyCtorOutcomes == {"ok", "open_failed", "axes_failed", "buttons_failed"}

JoyNext ==
  \/ \E outcome \in JoyCtorOutcomes, na \in AxisCounts, nb \in ButtonCounts :
       JoyCtor(outcome, na, nb)
  \/ SetButtonCallback
  \/ SetButtonCallbackReturn
  \/ PollTest
  \/ PollReadNothing
  \/ PollReadEvent
  \/ PollInvoke
  \/ JoyDtorStore
  \/ JoyDtorJoin
  \/ JoyDtorClose

----------------------------------------------------------------------------
\* The control loop: main of t_minipro.cpp, with the Joystick it owns. The
\* MiniPro is kept as the state of its connection and the drive commands it is
\* sent.

\* Number of loop iterations main completes in the model.
MaxIterations == 2

\* const int zero_threshold_x = 8000; const int zero_threshold_y = 8000.
zero_threshold_x == 8000
zero_threshold_y == 8000
\* steering /= 10.0.
damping == 10

\* The raw values of the axis events sent to the control loop, and the range a
\* negated signed 16-bit axis value lies in.
CtlValues == {-32768, -8000, -500, 20000, 32767}
NegatedAxisRange == -32767..32768
\* XBox360Controller::Axis_LeftThumbstick.
Axis_LeftThumbstick == 0
\* The axis counts the device reports to the control loop, and its button count.
CtlAxisCounts == {0, 4}
CtlButtonCount == 11
CtlEvents == [type : {"axis"}, number : {0, 1}, value : CtlValues]

NoDrive == << >>
NoRaw == [x |-> 0, y |-> 0]

CtlInit ==
  /\ mpc = "start"
  /\ should_exit = FALSE
  /\ minipro = "none"
  /\ throttle = 0
  /\ steering = 0
  /\ raw = NoRaw
  /\ last_drive = NoDrive
  /\ n_drives = 0
  /\ n_final = 0
  /\ n_iters = 0
  /\ rc = "none"

\* abs on int.
abs(a) == IF a < 0 THEN -a ELSE a

\* inline int sign(int a) { return a > 0 ? 1 : -1; }
sign(a) == IF a > 0 THEN 1 ELSE -1

\* The int that int / 10.0, converted back to int, gives: the quotient with its
\* fraction dropped.
divide_toward_zero(a, b) == IF a < 0 THEN -((-a) \div b) ELSE a \div b

\* A deadzone that clips without rescaling.
throttle_clip(v) ==
  IF abs(v) < zero_threshold_x THEN 0 ELSE v

\* The throttle branch: 0 below the threshold, else the excess with the sign.
throttle_deadzone(v) ==
  IF abs(v) < zero_threshold_x
  THEN 0
  ELSE (abs(v) - zero_threshold_x) * sign(v)

\* The steering branch without the damping.
steering_undamped(v) ==
  IF abs(v) < zero_threshold_y
  THEN 0
  ELSE (abs(v) - zero_threshold_y) * sign(v)

\* The steering branch: as the throttle branch, then steering /= 10.0.
steering_deadzone(v) ==
  IF abs(v) < zero_threshold_y
  THEN 0
  ELSE divide_toward_zero((abs(v) - zero_threshold_y) * sign(v), damping)

\* A final command that repeats the last one sent.
final_drive_repeat == last_drive

\* minipro.drive(0, 0) after the loop.
final_drive == <<0, 0>>

\* The joystick variables get_axis_state leaves alone.
joy_rest == <<fd_, num_axes_, num_buttons_, axis_map_, button_map_, should_exit_, jthread,
              n_events, n_regs, last_invoked, read_closed, last_event, last_reg, reg_call, n_gets>>

\* signal_handler: should_exit = true, whatever main is doing, from the moment
\* signal() has installed it until main returns.
SignalHandler ==
  /\ mpc \notin {"start", "stopped"}
  /\ ~should_exit
  /\ should_exit' = TRUE
  /\ UNCHANGED <<mpc, minipro, throttle, steering, raw, last_drive, n_drives, n_final,
                 n_iters, rc>>
  /\ UNCHANGED <<le_vars, joy_vars>>

\* signal(SIGINT, signal_handler), the first statement of the try block.
CtlSignal ==
  /\ mpc = "start"
  /\ mpc' = "connect"
  /\ UNCHANGED <<should_exit, minipro, throttle, steering, raw, last_drive, n_drives,
                 n_final, n_iters, rc>>
  /\ UNCHANGED <<le_vars, joy_vars>>

\* MiniPro minipro(bt_addr): the connection. When the constructor throws there
\* is no object; the handler returns -1.
CtlConnect(ok) ==
  /\ mpc = "connect"
  /\ IF ok
     THEN /\ mpc' = "enable"
          /\ minipro' = "connected"
          /\ UNCHANGED rc
     ELSE /\ mpc' = "stopped"
          /\ rc' = -1
          /\ UNCHANGED minipro
  /\ UNCHANGED <<should_exit, throttle, steering, raw, last_drive, n_drives, n_final,
                 n_iters>>
  /\ UNCHANGED <<le_vars, joy_vars>>

\* minipro.enable_notifications(). An exception leaves the try block: minipro
\* is destroyed during the unwinding and the handler returns -1.
CtlEnableNotifications(ok) ==
  /\ mpc = "enable"
  /\ IF ok
     THEN /\ mpc' = "enter"
          /\ minipro' = "notifying"
          /\ UNCHANGED rc
     ELSE /\ mpc' = "stopped"
          /\ rc' = -1
          /\ minipro' = "released"
  /\ UNCHANGED <<should_exit, throttle, steering, raw, last_drive, n_drives, n_final,
                 n_iters>>
  /\ UNCHANGED <<le_vars, joy_vars>>

\* minipro.enter_remote_control_mode(), with the same exception path.
CtlEnterRemote(ok) ==
  /\ mpc = "enter"
  /\ IF ok
     THEN /\ mpc' = "joystick"
          /\ minipro' = "remote"
          /\ UNCHANGED rc
     ELSE /\ mpc' = "stopped"
          /\ rc' = -1
          /\ minipro' = "released"
  /\ UNCHANGED <<should_exit, throttle, steering, raw, last_drive, n_drives, n_final,
                 n_iters>>
  /\ UNCHANGED <<le_vars, joy_vars>>

\* XBox360Controller joystick.
CtlJoystick ==
  /\ mpc = "joystick"
  /\ \E outcome \in JoyCtorOutcomes, na \in CtlAxisCounts :
       JoyCtor(outcome, na, CtlButtonCount)

\* The constructor of the joystick threw: minipro is destroyed during the
\* unwinding and the handler returns -1.
CtlJoystickFailed ==
  /\ mpc = "joystick"
  /\ jpc = "ctor_failed"
  /\ mpc' = "stopped"
  /\ minipro' = "released"
  /\ rc' = -1
  /\ UNCHANGED <<should_exit, throttle, steering, raw, last_drive, n_drives, n_final,
                 n_iters>>
  /\ UNCHANGED <<le_vars, joy_vars>>

\* while (!should_exit), the first time with the joystick just constructed.
CtlLoopTest ==
  /\ \/ mpc = "joystick" /\ jpc = "open"
     \/ mpc = "test"
  /\ IF should_exit
     THEN mpc' = "final_drive"
     ELSE /\ n_iters < MaxIterations
          /\ mpc' = "get_throttle"
  /\ UNCHANGED <<should_exit, minipro, throttle, steering, raw, last_drive, n_drives,
                 n_final, n_iters, rc>>
  /\ UNCHANGED <<le_vars, joy_vars>>

\* The call made at mpc = at: get_axis_state(Axis_LeftThumbstick) up to its
\* first load; the range error leaves the try block.
CtlGetCall(at) ==
  /\ mpc = at
  /\ \E first \in ReadOrders : get_axis_state_first(Axis_LeftThumbstick, first)
  /\ IF axis_out_of_range(Axis_LeftThumbstick)
     THEN mpc' = "unwind" /\ rc' = -1
     ELSE UNCHANGED <<mpc, rc>>
  /\ UNCHANGED <<should_exit, minipro, throttle, steering, raw, last_drive, n_drives,
                 n_final, n_iters>>
  /\ UNCHANGED joy_rest
  /\ UNCHANGED le_vars

\* auto throttle = -joystick.get_axis_state(Axis_LeftThumbstick).y.
CtlGetThrottle == CtlGetCall("get_throttle")

CtlGetThrottleReturn ==
  /\ mpc = "get_throttle"
  /\ get_axis_state_second
  /\ throttle' = -last_get'.y
  /\ raw' = [raw EXCEPT !.y = last_get'.y]
  /\ mpc' = "get_steering"
  /\ UNCHANGED <<should_exit, minipro, steering, last_drive, n_drives, n_final, n_iters, rc>>
  /\ UNCHANGED joy_rest
  /\ UNCHANGED le_vars

\* auto steering = -joystick.get_axis_state(Axis_LeftThumbstick).x.
CtlGetSteering == CtlGetCall("get_steering")

CtlGetSteeringReturn ==
  /\ mpc = "get_steering"
  /\ get_axis_state_second
  /\ steering' = -last_get'.x
  /\ raw' = [raw EXCEPT !.x = last_get'.x]
  /\ mpc' = "deadzone"
  /\ UNCHANGED <<should_exit, minipro, throttle, last_drive, n_drives, n_final, n_iters, rc>>
  /\ UNCHANGED joy_rest
  /\ UNCHANGED le_vars

\* The two if statements on throttle and steering.
CtlDeadzone ==
  /\ mpc = "deadzone"
  /\ throttle' = throttle_deadzone(throttle)
  /\ steering' = steering_deadzone(steering)
  /\ mpc' = "drive"
  /\ UNCHANGED <<should_exit, minipro, raw, last_drive, n_drives, n_final, n_iters, rc>>
  /\ UNCHANGED <<le_vars, joy_vars>>

\* minipro.drive(throttle, steering); loop_rate.sleep(); the locals of the
\* iteration go out of scope.
CtlDrive ==
  /\ mpc = "drive"
  /\ last_drive' = <<throttle, steering>>
  /\ n_drives' = n_drives + 1
  /\ n_iters' = n_iters + 1
  /\ throttle' = 0
  /\ steering' = 0
  /\ raw' = NoRaw
  /\ mpc' = "test"
  /\ UNCHANGED <<should_exit, minipro, n_final, rc>>
  /\ UNCHANGED <<le_vars, joy_vars>>

\* minipro.drive(0, 0) once the loop has ended.
CtlFinalDrive ==
  /\ mpc = "final_drive"
  /\ last_drive' = final_drive
  /\ n_final' = n_final + 1
  /\ mpc' = "exit_remote"
  /\ UNCHANGED <<should_exit, minipro, throttle, steering, raw, n_drives, n_iters, rc>>
  /\ UNCHANGED <<le_vars, joy_vars>>

\* minipro.exit_remote_control_mode(); minipro.disable_notifications(); the try
\* block ends.
CtlExitRemote ==
  /\ mpc = "exit_remote"
  /\ minipro' = "normal"
  /\ rc' = 0
  /\ mpc' = "unwind"
  /\ UNCHANGED <<should_exit, throttle, steering, raw, last_drive, n_drives, n_final,
                 n_iters>>
  /\ UNCHANGED <<le_vars, joy_vars>>

\* Leaving the try block destroys joystick first: ~Joystick, statement by
\* statement.
CtlJoyDtorStore == mpc = "unwind" /\ JoyDtorStore
CtlJoyDtorJoin == mpc = "unwind" /\ JoyDtorJoin
CtlJoyDtorClose == mpc = "unwind" /\ JoyDtorClose

\* Then minipro is destroyed, which releases the connection, and main returns.
CtlRelease ==
  /\ mpc = "unwind"
  /\ jpc = "destroyed"
  /\ minipro' = "released"
  /\ mpc' = "stopped"
  /\ UNCHANGED <<should_exit, throttle, steering, raw, last_drive, n_drives, n_final,
                 n_iters, rc>>
  /\ UNCHANGED <<le_vars, joy_vars>>

\* The poll thread of the joystick reads an axis event of the left stick.
CtlPollReadEvent == PollRead(CtlEvents)

CtlNext ==
  \/ SignalHandler
  \/ CtlSignal
  \/ \E ok \in BOOLEAN : CtlConnect(ok)
  \/ \E ok \in BOOLEAN : CtlEnableNotifications(ok)
  \/ \E ok \in BOOLEAN : CtlEnterRemote(ok)
  \/ CtlJoystick
  \/ CtlJoystickFailed
  \/ CtlLoopTest
  \/ CtlGetThrottle
  \/ CtlGetThrottleReturn
  \/ CtlGetSteering
  \/ CtlGetSteeringReturn
  \/ CtlDeadzone
  \/ CtlDrive
  \/ CtlFinalDrive
  \/ CtlExitRemote
  \/ CtlJoyDtorStore
  \/ CtlJoyDtorJoin
  \/ CtlJoyDtorClose
  \/ CtlRelease
  \/ PollTest
  \/ PollReadNothing
  \/ CtlPollReadEvent

Init == LEInit /\ JoyInit /\ CtlInit

\* The connection: the owner thread and input_thread_ of one LEClient.
Next == LENext
Spec == Init /\ [][Next]_vars

\* The connection with a fairly scheduled event thread: a callback that has
\* started runs to its end, and mainloop_run tests the terminate flag on every
\* pass, between two callbacks, so once the flag is set the thread function
\* returns unless the process ends first.
LiveSpec ==
  /\ Init /\ [][Next]_vars
  /\ WF_vars(ReadyCbNotify)
  /\ WF_vars(ReadyCbStore)
  /\ SF_vars(ProcessInputReturn)

\* The input poller. Both threads are scheduled fairly: the poll loop's read is
\* non-blocking and its sleep is bounded, so each of its steps, and each
\* statement of the destructor, is eventually taken once it can be.
JoyFairness ==
  /\ WF_vars(PollTest)
  /\ WF_vars(PollReadNothing)
  /\ WF_vars(PollInvoke)
  /\ WF_vars(JoyDtorJoin)
  /\ WF_vars(JoyDtorClose)
JoySpec == Init /\ [][JoyNext]_vars /\ JoyFairness

\* The calls of the owner while the poll thread runs.
AxisNext ==
  \/ \E outcome \in JoyCtorOutcomes, na \in AxisCounts, nb \in ButtonCounts :
       JoyCtor(outcome, na, nb)
  \/ SetButtonCallback
  \/ SetButtonCallbackReturn
  \/ GetAxisState
  \/ GetAxisStateReturn
  \/ PollTest
  \/ PollReadNothing
  \/ PollReadOwnerEvent
  \/ PollInvoke

AxisSpec == Init /\ [][AxisNext]_vars

\* The control loop application.
CtlSpec == Init /\ [][CtlNext]_vars

\* The poll thread alone, fed with every event the switch distinguishes.
PollNext ==
  \/ \E outcome \in JoyCtorOutcomes, na \in AxisCounts, nb \in ButtonCounts :
       JoyCtor(outcome, na, nb)
  \/ PollTest
  \/ PollReadNothing
  \/ PollReadAxisEvent

PollSpec == Init /\ [][PollNext]_vars

----------------------------------------------------------------------------
\* The claims about the connection, checked under Spec.

\* The owner thread is inside future.get() of a blocking facade call.
InBlockingCall == pc \in {"wv_wait", "wl_wait", "we_wait"}

\* The promise of the call in progress, fulfilled once with value v.
Fulfilled(v) == [state |-> "set", value |-> v, count |-> 1]

\* The step is the issue of facade call op.
Issues(op) == n_calls' # n_calls /\ last_op'.op = op

\* C1: the promise of a blocking facade call is fulfilled exactly once: never
\* twice, and, once BlueZ has nothing left to deliver for the call (the request
\* was refused, or its completion callback has run), not zero times.
CE_C1 ==
  InBlockingCall =>
    /\ promise.count <= 1
    /\ (pending = "none" => promise.count = 1)

\* C2: a write_long_cb completion fulfils the pending promise with 0 when
\* success is true, with att_ecode when success and reliable_error are both
\* false, and leaves it untouched when success is false and reliable_error is
\* true; nothing else fulfils the promise of a write_long_value call.
Thm_C2 ==
  [][ /\ (pending = "write_long" /\ pending' = "none") =>
           promise' = IF last_cb'.success THEN Fulfilled(0)
                      ELSE IF last_cb'.reliable_error THEN promise
                      ELSE Fulfilled(last_cb'.att_ecode)
      /\ (pc = "wl_wait" /\ promise'.count # promise.count /\ pc' = "wl_wait") =>
           /\ pending = "write_long"
           /\ last_cb'.cb = "write_long_cb"
           /\ (last_cb'.success \/ ~last_cb'.reliable_error) ]_vars

\* A write_long_value call has received the "reliable write not verified"
\* completion and its promise is still empty.
Witness_C2 ==
  /\ pc = "wl_wait"
  /\ last_cb.cb = "write_long_cb"
  /\ ~last_cb.success
  /\ last_cb.reliable_error
  /\ pending = "none"
  /\ promise = NewPromise

\* C3: write_prepare with an id other than reliable_session_id_ does not call
\* bt_gatt_client_prepare_write and leaves reliable_session_id_ unchanged.
Thm_C3 ==
  [][ (Issues("write_prepare") /\ last_op'.id # reliable_session_id_) =>
        /\ last_op'.collab = "none"
        /\ reliable_session_id_' = reliable_session_id_ ]_vars

\* write_prepare has just been refused the non-zero id of a session that
\* write_execute had cleared.
Witness_C3 ==
  /\ last_op.op = "write_prepare"
  /\ last_op.id # 0
  /\ last_op.id \in stale
  /\ last_op.before = 0
  /\ last_op.collab = "none"
  /\ reliable_session_id_ = 0

\* C4: every write_execute call ends with reliable_session_id_ = 0, also when
\* BlueZ refuses the execute request: a call BlueZ has nothing left to deliver
\* for is not parked in future.get() with the session still open.
CE_C4 ==
  ~ ( /\ pc = "we_wait"
      /\ pending = "none"
      /\ ~future_ready(promise)
      /\ reliable_session_id_ # 0 )

\* C5, as claimed: write_execute with a session_id other than
\* reliable_session_id_ neither calls BlueZ nor clears the open session.
CE_C5 ==
  [][ (Issues("write_execute") /\ last_op'.id # reliable_session_id_) =>
        /\ last_op'.collab = "none"
        /\ reliable_session_id_' = reliable_session_id_ ]_vars

\* C5, amended: write_execute makes no identifier check. Whatever session_id it
\* is given it calls BlueZ with it (bt_gatt_client_write_execute or
\* bt_gatt_client_cancel); the cancel path clears reliable_session_id_ at once
\* and the execute path clears it when future.get() returns.
Thm_C5 ==
  [][ /\ Issues("write_execute") =>
           /\ last_op'.collab # "none"
           /\ (~last_op'.flag => reliable_session_id_' = 0 /\ pc' = "idle")
           /\ (last_op'.flag => pc' = "we_wait")
      /\ (pc = "we_wait" /\ pc' # "we_wait") =>
           reliable_session_id_' = 0 ]_vars

\* A write_execute call given an id other than the open, non-zero session id
\* has called BlueZ, has returned, and the session is cleared.
Witness_C5 ==
  /\ pc = "idle"
  /\ last_op.op = "write_execute"
  /\ last_op.before # 0
  /\ last_op.id # last_op.before
  /\ last_op.collab # "none"
  /\ reliable_session_id_ = 0

\* C6: write_value without response allocates no promise and is back in the
\* caller at once, accepted or refused; write_value with response leaves
\* future.get() only after write_cb has fulfilled the promise of that call.
Thm_C6 ==
  [][ /\ (Issues("write_value") /\ last_op'.flag) =>
           /\ promise' = NoPromise
           /\ pending' = "none"
           /\ pc' = "idle"
      /\ (Issues("write_value") /\ ~last_op'.flag) =>
           /\ promise' = NewPromise
           /\ pc' = "wv_wait"
      /\ (pc = "wv_wait" /\ pc' # "wv_wait") =>
           /\ promise.count = 1
           /\ pending = "none"
           /\ last_op.collab = "accepted" ]_vars

\* A write_value with response has returned after its completion callback.
Witness_C6 ==
  /\ pc = "idle"
  /\ last_op.op = "write_value"
  /\ ~last_op.flag
  /\ last_op.collab = "accepted"
  /\ last_cb.cb = "write_cb"
  /\ promise = NoPromise

\* C7: the constructor completes normally only if ready_cb has fired with
\* success = true.
CE_C7 == Constructed => ready_fired = "ok"

\* C8: every failed constructor step ends the construction with an error, so a
\* constructed object has become ready.
CE_C8 ==
  /\ init_failure # "none" => pc \in {"ctor_failed", "terminated"}
  /\ Constructed => ready_

\* C9: once spawned, input_thread_ is joined before gatt_ or att_ is released
\* and before the object ceases to exist.
CE_C9 ==
  input_thread_ # "none" =>
    /\ (gatt_ = "released" \/ att_ = "released") => input_thread_ = "joined"
    /\ pc \in {"destroyed", "terminated"} => input_thread_ = "joined"

----------------------------------------------------------------------------
\* The claims about the input poller, checked under JoySpec.

\* The order of the destructor: the flag is stored before the join returns,
\* the join returns before fd_ is closed, and read is never called on a closed
\* fd_.
DtorOrder ==
  /\ jthread = "joined" => should_exit_
  /\ fd_ = "closed" => jthread = "joined"
  /\ jpc \in {"dtor_close", "destroyed"} => jthread = "joined"
  /\ ~read_closed

\* C10: the destructor stores should_exit_, then joins the poll thread, then
\* closes fd_; the poll thread never calls read on a closed fd_; and once the
\* flag is stored the poll thread goes on to see it and leave its loop, so
\* that the join returns: it does not end in any other way.
CE_C10 ==
  /\ DtorOrder
  /\ should_exit_ => jthread # "terminated"


\* C11: every axis event the poll loop processes writes its value to the slot
\* component of the routing table (0, 1 -> slot 0 x, y; 2, 5 -> slot 2 x, y;
\* 3, 4 -> slot 1 x, y; 6, 7 -> slot 3 x, y) and leaves every other component
\* as it was; an axis event with another number, a button event and an event
\* of any other type change no axis state.
Thm_C11 ==
  [][n_events' # n_events =>
       LET e == last_event' IN
       \A s \in Slots :
         /\ axis_map_'[s].x =
              IF e.type = "axis" /\ <<e.number, s>> \in {<<0, 0>>, <<2, 2>>, <<3, 1>>, <<6, 3>>}
              THEN e.value ELSE axis_map_[s].x
         /\ axis_map_'[s].y =
              IF e.type = "axis" /\ <<e.number, s>> \in {<<1, 0>>, <<5, 2>>, <<4, 1>>, <<7, 3>>}
              THEN e.value ELSE axis_map_[s].y]_vars

\* An event with raw number 2 has just been routed to slot 2's x after an
\* earlier event had set slot 1.
Witness_C11 ==
  /\ last_event.type = "axis"
  /\ last_event.number = 2
  /\ axis_map_[2].x = last_event.value
  /\ axis_map_[1] # [x |-> 0, y |-> 0]
  /\ n_events = 2

\* C12: get_axis_state with an index at or above the axis count and
\* set_button_callback with an index at or above the button count fail with a
\* range error and change neither table; with an index below the count the
\* call goes through (the read returns a pair, the entry is set).
Thm_C12 ==
  /\ [][n_gets' # n_gets =>
          \/ /\ jpc' = "get_second"
             /\ get_call'.axis < num_axes_
             /\ UNCHANGED <<axis_map_, button_map_>>
          \/ /\ jpc' = "open"
             /\ last_get'.result = "error"
             /\ last_get'.axis >= num_axes_
             /\ UNCHANGED <<axis_map_, button_map_>>]_vars
  /\ [][(jpc = "get_second" /\ jpc' = "open") =>
          /\ last_get'.result = "ok"
          /\ last_get'.axis = get_call.axis
          /\ UNCHANGED <<axis_map_, button_map_>>]_vars
  /\ [][n_regs' # n_regs =>
          \/ /\ jpc' = "set_write"
             /\ reg_call'.button < num_buttons_
             /\ UNCHANGED <<axis_map_, button_map_>>
          \/ /\ jpc' = "open"
             /\ last_reg'.result = "error"
             /\ last_reg'.button >= num_buttons_
             /\ UNCHANGED <<axis_map_, button_map_>>]_vars
  /\ [][(jpc = "set_write" /\ jpc' = "open") =>
          /\ last_reg'.result = "ok"
          /\ last_reg'.button = reg_call.button
          /\ button_map_' = [button_map_ EXCEPT ![reg_call.button] = reg_call.registered]
          /\ UNCHANGED axis_map_]_vars

\* Both calls have been refused at the first index out of range, and the
\* tables hold what an earlier event and nothing else put there.
Witness_C12 ==
  /\ last_reg.result = "error"
  /\ last_reg.button = num_buttons_
  /\ last_get.result = "error"
  /\ last_get.axis = num_axes_
  /\ n_events > 0

\* C13: the pair get_axis_state returns is a pair the slot held at some instant
\* between the call and the return.
CE_C13 ==
  last_get.result = "ok" => <<last_get.x, last_get.y>> \in last_get.held

\* C20: the poll loop uses only axis slots below the axis count and only
\* button entries below the button count.
CE_C20 ==
  /\ last_event.slot # -1 => last_event.slot < num_axes_
  /\ last_event.entry # -1 => last_event.entry < num_buttons_

\* C17: att_disconnect_cb tells the main loop to quit, and once it has run the
\* event thread stops (process_input returns, or the whole process has ended)
\* with no step required of the owner.
Thm_C17 ==
  /\ [][(last_cb'.cb = "att_disconnect_cb" /\ last_cb.cb # "att_disconnect_cb") => quit']_vars
  /\ (last_cb.cb = "att_disconnect_cb" /\ input_thread_ = "running")
       ~> (input_thread_ # "running" \/ ~Alive)

\* The disconnect was notified while the owner sat idle, and the event thread
\* has ended.
Witness_C17 ==
  /\ last_cb.cb = "att_disconnect_cb"
  /\ input_thread_ = "exited"
  /\ pc = "idle"
  /\ n_calls = 0

\* The owner waits in write_long_value on an empty promise and BlueZ has no
\* completion left to deliver.
Stalled ==
  /\ pc = "wl_wait"
  /\ pending = "none"
  /\ promise = NewPromise

\* C18: a write_long_value request whose completion is "reliable write not
\* verified" (success false, reliable_error true) leaves the promise empty with
\* nothing left to fulfil it, and from then on the caller stays blocked in
\* write_long_value whatever happens.
Thm_C18 ==
  /\ [][(pending = "write_long" /\ pending' = "none"
           /\ ~last_cb'.success /\ last_cb'.reliable_error) => Stalled']_vars
  /\ [][Stalled => Stalled']_vars

\* The request was accepted, its one completion left the promise empty, and the
\* caller is still blocked after the event thread itself has ended.
Witness_C18 ==
  /\ Stalled
  /\ last_op.op = "write_long_value"
  /\ last_op.collab = "accepted"
  /\ last_cb.cb = "att_disconnect_cb"
  /\ input_thread_ = "exited"

\* C19: a blocking facade call whose request BlueZ refused does not wait on
\* the promise.
CE_C19 ==
  ~(InBlockingCall /\ last_op.collab = "refused")

----------------------------------------------------------------------------
\* The claims about the control loop, checked under CtlSpec.

\* The deadzone transform of the claims over the whole input range: 0 inside
\* the threshold, the excess over it with the sign of v outside, 0 at the
\* threshold itself, never decreasing in |v| and of the sign of v above it.
DeadzoneLaw ==
  \A v \in NegatedAxisRange :
    LET mag == IF v < 0 THEN -v ELSE v
        sgn == IF v < 0 THEN -1 ELSE IF v > 0 THEN 1 ELSE 0
        out == throttle_deadzone(v)
    IN /\ mag < 8000 => out = 0
       /\ mag >= 8000 => out = sgn * (mag - 8000)
       /\ mag = 8000 => out = 0
       /\ mag > 8000 => (out > 0 <=> v > 0) /\ (out < 0 <=> v < 0)
       /\ (v >= 8000 /\ v + 1 \in NegatedAxisRange) =>
            throttle_deadzone(v + 1) >= out
       /\ (v <= -8000 /\ v - 1 \in NegatedAxisRange) =>
            throttle_deadzone(v - 1) <= out
       /\ steering_deadzone(v) =
            (IF out < 0 THEN -((-out) \div 10) ELSE out \div 10)

\* C14: for every negated 16-bit axis value v and threshold 8000 the deadzone
\* transform yields 0 when |v| < 8000 and sign(v) * (|v| - 8000) otherwise, is 0
\* at |v| = 8000, and above it is non-decreasing in |v| with the sign of v;
\* each iteration of the loop replaces throttle by this transform of it.
Thm_C14 ==
  /\ [](mpc = "deadzone" => DeadzoneLaw)
  /\ [][(mpc = "deadzone" /\ mpc' = "drive") =>
          LET mag == IF throttle < 0 THEN -throttle ELSE throttle
          IN /\ throttle \in NegatedAxisRange
             /\ mag < 8000 => throttle' = 0
             /\ (mag >= 8000 /\ throttle > 0) => throttle' = throttle - 8000
             /\ (mag >= 8000 /\ throttle < 0) => throttle' = throttle + 8000]_vars

\* An iteration has turned a throttle beyond the threshold (the negation of the
\* most negative axis value) into its excess.
Witness_C14 ==
  /\ mpc = "drive"
  /\ raw.y = -32768
  /\ throttle = 24768

\* C15: every iteration sends drive(throttle, steering) with throttle the
\* deadzone transform of the negated y and steering the deadzone transform of
\* the negated x, divided by 10 and truncated toward zero, of the pairs
\* get_axis_state(0) returned, and get_axis_state returns the pair the slot
\* holds when no event arrives during the call: with x = 20000 and y = -500 the
\* command is throttle 0, steering -1200.
Thm_C15 ==
  /\ [][(mpc = "drive" /\ mpc' = "test") =>
          LET dz(v) == IF v > -8000 /\ v < 8000 THEN 0
                       ELSE IF v > 0 THEN v - 8000 ELSE v + 8000
              tz(a) == IF a < 0 THEN -((-a) \div 10) ELSE a \div 10
          IN /\ last_drive' = <<dz(-raw.y), tz(dz(-raw.x))>>
             /\ (raw.x = 20000 /\ raw.y = -500) => last_drive' = <<0, -1200>>]_vars
  /\ [][(jpc = "get_second" /\ jpc' = "open" /\ held = {<<axis_map_[0].x, axis_map_[0].y>>}) =>
          (last_get'.x = axis_map_[0].x /\ last_get'.y = axis_map_[0].y)]_vars

\* The device reported 4 axes and 11 buttons, sent axis 0 = 20000 and axis 1 =
\* -500, and the command sent was (0, -1200).
Witness_C15 ==
  /\ num_axes_ = 4
  /\ num_buttons_ = 11
  /\ n_events = 2
  /\ axis_map_[0] = [x |-> 20000, y |-> -500]
  /\ last_get.x = 20000
  /\ last_get.y = -500
  /\ last_drive = <<0, -1200>>

\* C16 as stated: whenever the application has stopped after entering the
\* control loop, the last drive command sent is (0, 0).
CE_C16 ==
  (mpc = "stopped" /\ jpc = "destroyed") => last_drive = <<0, 0>>

\* C16: the interrupt handler changes nothing but the shutdown flag; the loop
\* is left only at its test, with the flag set; one drive(0, 0) follows, before
\* the remote control mode is left and the connection released, and no drive
\* command follows it. When the application has stopped after entering the
\* loop the last drive command is therefore (0, 0), unless get_axis_state threw
\* in the first iteration (a device without axes), in which case no drive
\* command was sent at all.
Thm_C16 ==
  /\ [][should_exit' # should_exit =>
          /\ should_exit'
          /\ UNCHANGED <<mpc, minipro, throttle, steering, raw, last_drive, n_drives,
                         n_final, n_iters, rc, joy_vars>>]_vars
  /\ [][(mpc # "final_drive" /\ mpc' = "final_drive") =>
          (should_exit /\ mpc \in {"joystick", "test"})]_vars
  /\ [][(mpc = "final_drive" /\ mpc' # "final_drive") =>
          (last_drive' = <<0, 0>> /\ minipro' = "remote")]_vars
  /\ [][(n_final > 0 \/ minipro = "released") => last_drive' = last_drive]_vars
  /\ [](n_final <= 1)
  /\ []((mpc = "stopped" /\ jpc = "destroyed") =>
          \/ n_final = 1 /\ last_drive = <<0, 0>> /\ rc = 0
          \/ n_final = 0 /\ last_drive = NoDrive /\ rc = -1 /\ num_axes_ = 0)

\* The application was interrupted after two iterations had sent their
\* commands, sent the neutral command and stopped.
Witness_C16 ==
  /\ mpc = "stopped"
  /\ should_exit
  /\ n_drives = 2
  /\ n_final = 1
  /\ last_drive = <<0, 0>>
  /\ minipro = "released"

----------------------------------------------------------------------------
\* The claim about the button callbacks, checked under AxisSpec.

\* C21: what the poll thread calls for a button event is a registered
\* callback, never an empty entry and never one the owner is writing.
CE_C21 ==
  last_invoked.callee \in {"none", "callback"}
====
